---- MODULE Spec2Model ----
(***************************************************************************)
(* Model of .tools/update-mod.py: the single-document cleaner clean_xml    *)
(* (blood scan, props filter, frequency default, recursive pruning) and    *)
(* the directory walker clean_and_copy_xml_files.                          *)
(*                                                                         *)
(* An XML file is a sequence of start tags in document order, each with    *)
(* its nesting depth: <<[tag, attrib, depth], ...>>.  A parsed tree is a   *)
(* sequence of elements [tag, attrib, children]; an element is named by    *)
(* its index (its object identity in ElementTree), element 1 is the root,  *)
(* and children is the element's ordered child list.  ElementTree keeps no *)
(* parent pointers, and neither does the model.                            *)
(*                                                                         *)
(* An attribute value, like the result of Element.get, is None (<<>>) or   *)
(* Some(v) (<<v>>).  An actor name is a sequence of characters so that     *)
(* lower() and the substring test are computed.                            *)
(***************************************************************************)
EXTENDS Naturals, Sequences, FiniteSets

VARIABLES
    file,       \* Spec: the text of the document being processed
    pass,       \* Spec: 1 = the input document, 2 = the written output read again
    pc,         \* Spec: position inside clean_xml / the walker's loop body ("off" in SpecWalk)
    elem,       \* Spec: the parsed tree (tree.getroot() is element 1)
    blood,      \* Spec: the local has_blood of clean_xml
    modified,   \* Spec: the local modified of clean_xml
    result,     \* Spec: the return value of clean_xml (None or Some(text))
    written,    \* Spec: the output file of the document (None or Some(text))
    files,      \* SpecWalk: the files os.walk yields, in order
    idx,        \* SpecWalk: index of the next file of the walk
    outdir,     \* SpecWalk: output folder, relative path (index) -> None or Some(text)
    wpc         \* SpecWalk: "walk" while the loop runs, "done" after it ("off" in Spec)

vars == <<file, pass, pc, elem, blood, modified, result, written, files, idx, outdir, wpc>>

\* ------------------------------------------------------------------ bounds

MaxNodes == 6
MaxFiles == 3

\* ------------------------------------------------------------------ values

None == <<>>
Some(v) == <<v>>

UpperCase == <<"A","B","C","D","E","F","G","H","I","J","K","L","M",
               "N","O","P","Q","R","S","T","U","V","W","X","Y","Z">>
LowerCase == <<"a","b","c","d","e","f","g","h","i","j","k","l","m",
               "n","o","p","q","r","s","t","u","v","w","x","y","z">>

\* str.lower(), character by character
lower(s) ==
    [i \in 1..Len(s) |->
        IF \E k \in 1..26 : UpperCase[k] = s[i]
        THEN LowerCase[CHOOSE k \in 1..26 : UpperCase[k] = s[i]]
        ELSE s[i]]

\* sub in s  (substring test)
Contains(sub, s) ==
    \E i \in 0..Len(s) : i + Len(sub) <= Len(s) /\ SubSeq(s, i + 1, i + Len(sub)) = sub

BloodMarker == <<"b","l","o","o","d">>

\* "blood" in (prop.get("actor") or "").lower()
IsBloodActor(attrib) ==
    LET a == IF attrib.actor = None THEN <<>> ELSE attrib.actor[1]
    IN  Contains(BloodMarker, lower(a))

XmlDecl == "<?xml version=\"1.0\" encoding=\"utf-8\"?>\n"

\* ------------------------------------------------------------------ documents

NoAttrib == [actor |-> None, file |-> None, frequency |-> None]

ActorNames == { <<"G","_","B","l","o","o","d">>, <<"r","o","c","k">> }
RootTag == "actor"
ContainerKinds == { "props", "animations", "textures" }

Label(t, a) == [tag |-> t, attrib |-> a]

\* The file / frequency combinations of the variants of the input documents:
\* file absent or set, frequency absent, "0" or "100", and a blank file attribute.
VariantAttribs ==
    ({None, Some("f")} \X {None, Some("0"), Some("100")}) \cup {<<Some(""), Some("0")>>}

VariantLabels ==
    { Label("variant", [NoAttrib EXCEPT !.file = fq[1], !.frequency = fq[2]]) :
        fq \in VariantAttribs }

PropLabels ==
    { Label("prop", [NoAttrib EXCEPT !.actor = a]) :
        a \in {None} \cup { Some(x) : x \in ActorNames } }

ContainerLabels == { Label(t, NoAttrib) : t \in ContainerKinds }

\* The element kinds a parent of the given tag holds in an actor document.
Allowed(ptag) ==
    CASE ptag = RootTag      -> { Label("group", NoAttrib) }
      [] ptag = "group"      -> VariantLabels
      [] ptag = "variant"    -> ContainerLabels \cup PropLabels
      [] ptag = "props"      -> PropLabels
      [] ptag = "animations" -> { Label("animation", NoAttrib) }
      [] ptag = "textures"   -> { Label("texture", NoAttrib) }
      [] OTHER               -> {}

Token(lab, d) == [tag |-> lab.tag, attrib |-> lab.attrib, depth |-> d]

\* ------------------------------------------------------------------ parser / serializer

\* The text is one element with properly nested descendants.
WellFormed(text) ==
    /\ Len(text) >= 1
    /\ text[1].depth = 0
    /\ \A i \in 2..Len(text) : text[i].depth >= 1 /\ text[i].depth <= text[i-1].depth + 1

\* The start tag that encloses the i-th start tag of a well-formed text.
ParentOf(text, i) ==
    CHOOSE j \in 1..(i-1) :
        /\ text[j].depth = text[i].depth - 1
        /\ \A k \in (j+1)..(i-1) : text[k].depth >= text[i].depth

RECURSIVE ChildList(_, _, _)
ChildList(text, i, j) ==
    IF j > Len(text) THEN <<>>
    ELSE IF ParentOf(text, j) = i THEN <<j>> \o ChildList(text, i, j + 1)
    ELSE ChildList(text, i, j + 1)

\* ET.parse(file_path).getroot() of a well-formed text: element i is start tag i.
Parse(text) ==
    [i \in 1..Len(text) |->
        [tag |-> text[i].tag, attrib |-> text[i].attrib,
         children |-> ChildList(text, i, i + 1)]]

RECURSIVE SerializeFrom(_, _, _), SerializeAll(_, _, _)
SerializeFrom(e, i, d) ==
    <<[tag |-> e[i].tag, attrib |-> e[i].attrib, depth |-> d]>>
        \o SerializeAll(e, e[i].children, d + 1)
SerializeAll(e, list, d) ==
    IF list = <<>> THEN <<>>
    ELSE SerializeFrom(e, Head(list), d) \o SerializeAll(e, Tail(list), d)

\* ET.tostring(root): the elements still attached below the root, in document order.
tostring(e) == SerializeFrom(e, 1, 0)

\* ------------------------------------------------------------------ ElementTree queries

RECURSIVE Iter(_, _), IterAll(_, _)
\* Element.iter(): the element and its descendants in document order
Iter(e, i) == <<i>> \o IterAll(e, e[i].children)
IterAll(e, list) ==
    IF list = <<>> THEN <<>> ELSE Iter(e, Head(list)) \o IterAll(e, Tail(list))

Range(s) == { s[k] : k \in 1..Len(s) }

\* the list without the members of S
Drop(list, S) == SelectSeq(list, LAMBDA x : x \notin S)

\* root.findall(".//tag"): descendants of the root (never the root itself) with that tag
FindDesc(e, t) == SelectSeq(Tail(Iter(e, 1)), LAMBDA i : e[i].tag = t)

\* the children of element i with tag t:  i.findall("t")
ChildrenTagged(e, i, t) == SelectSeq(e[i].children, LAMBDA c : e[c].tag = t)

\* root.findall(".//props/prop")
FindPropsProp(e) ==
    UNION { Range(ChildrenTagged(e, p, "prop")) : p \in Range(FindDesc(e, "props")) }

\* root.findall(".//variant/props/prop")
FindVariantPropsProp(e) ==
    UNION { Range(ChildrenTagged(e, p, "prop")) :
            p \in UNION { Range(ChildrenTagged(e, v, "props")) :
                          v \in Range(FindDesc(e, "variant")) } }

\* props.find(".."): ElementPath builds its parent map from the element the
\* query is called on, so that element is never a key of the map and the
\* query yields no element.
find_parent(e, i) == None

\* ------------------------------------------------------------------ clean_xml, stage by stage

\* Faulty scan: the early return is never taken.
has_blood_ungated(e) == TRUE

\* has_blood after both scans
has_blood(e) ==
    LET first  == \E p \in FindVariantPropsProp(e) : IsBloodActor(e[p].attrib)
        second == \E p \in FindPropsProp(e) : IsBloodActor(e[p].attrib)
    IN  first \/ second

\* Faulty filter test: the actor is compared without lower().
KeepProp_cased(attrib) ==
    LET a == IF attrib.actor = None THEN <<>> ELSE attrib.actor[1]
    IN  ~Contains(BloodMarker, a)

\* the test of the list comprehension that rebuilds props[:]
KeepProp(attrib) == ~IsBloodActor(attrib)

\* Faulty container rule: only props is handled.
EmptyRemovable_props == {"props"}

\* the tags remove_empty_elements removes when the element has no children
EmptyRemovable == {"props", "animations", "textures"}

\* element.remove(item) for every item of to_remove
RemoveChildren(e, element, to_remove) ==
    [e EXCEPT ![element].children = Drop(@, Range(to_remove))]

RECURSIVE filter_props(_, _)
\* the loop over props_nodes; st = [elem, modified]
filter_props(st, props_nodes) ==
    IF props_nodes = <<>> THEN st
    ELSE
        LET props  == Head(props_nodes)
            e1     == [st.elem EXCEPT ![props].children =
                          SelectSeq(@, LAMBDA c : KeepProp(st.elem[c].attrib))]
            parent == find_parent(e1, props)
            st1    == IF e1[props].children = <<>> /\ parent /= None
                      THEN [elem |-> RemoveChildren(e1, parent[1], <<props>>),
                            modified |-> TRUE]
                      ELSE [elem |-> e1, modified |-> st.modified]
        IN  filter_props(st1, Tail(props_nodes))

\* Faulty normalizer: root.findall("variant") sees the root's children only.
default_frequency_direct(st) ==
    LET missing == { v \in Range(ChildrenTagged(st.elem, 1, "variant")) :
                        st.elem[v].attrib.frequency = None }
    IN  [elem |-> [i \in DOMAIN st.elem |->
                      IF i \in missing
                      THEN [st.elem[i] EXCEPT !.attrib.frequency = Some("0")]
                      ELSE st.elem[i]],
         modified |-> st.modified \/ missing /= {}]

\* the loop over root.findall(".//variant"); st = [elem, modified]
default_frequency(st) ==
    LET missing == { v \in Range(FindDesc(st.elem, "variant")) :
                        st.elem[v].attrib.frequency = None }
    IN  [elem |-> [i \in DOMAIN st.elem |->
                      IF i \in missing
                      THEN [st.elem[i] EXCEPT !.attrib.frequency = Some("0")]
                      ELSE st.elem[i]],
         modified |-> st.modified \/ missing /= {}]

\* not list(v) and not v.get("file") and v.get("frequency") in freqs
UselessVariant(e, v, freqs) ==
    /\ e[v].children = <<>>
    /\ (e[v].attrib.file = None \/ e[v].attrib.file = Some(""))
    /\ e[v].attrib.frequency \in { Some(q) : q \in freqs }

\* Faulty group rule: the single variant counts as useless at "0" only.
SingleUselessVariant_zero(e, g) ==
    /\ Len(e[g].children) = 1
    /\ e[e[g].children[1]].tag = "variant"
    /\ UselessVariant(e, e[g].children[1], {"0"})

\* the second branch of the group rule
SingleUselessVariant(e, g) ==
    /\ Len(e[g].children) = 1
    /\ e[e[g].children[1]].tag = "variant"
    /\ UselessVariant(e, e[g].children[1], {"0", "100"})

RECURSIVE remove_empty_elements(_, _), prune_children(_, _, _)
\* the for loop of remove_empty_elements over the children still to visit;
\* acc = [elem, modified, to_remove]
prune_children(acc, element, rest) ==
    IF rest = <<>> THEN acc
    ELSE
        LET child == Head(rest)
            tag   == acc.elem[child].tag
            st    == [elem |-> acc.elem, modified |-> acc.modified]
            sub   == IF tag \in {"variant", "group"}
                     THEN remove_empty_elements(st, child)
                     ELSE st
            gone  == CASE tag \in EmptyRemovable ->
                              sub.elem[child].children = <<>>
                       [] tag = "variant" ->
                              UselessVariant(sub.elem, child, {"0"})
                       [] tag = "group" ->
                              \/ sub.elem[child].children = <<>>
                              \/ SingleUselessVariant(sub.elem, child)
                       [] OTHER -> FALSE
        IN  prune_children(
                [elem |-> sub.elem, modified |-> sub.modified,
                 to_remove |-> IF gone THEN Append(acc.to_remove, child)
                               ELSE acc.to_remove],
                element, Tail(rest))

\* remove_empty_elements(element); st = [elem, modified]
remove_empty_elements(st, element) ==
    LET acc == prune_children(
                   [elem |-> st.elem, modified |-> st.modified, to_remove |-> <<>>],
                   element, st.elem[element].children)
    IN  [elem |-> RemoveChildren(acc.elem, element, acc.to_remove),
         modified |-> acc.modified \/ acc.to_remove /= <<>>]

\* the text clean_xml returns when modified
xml_output(e) == Some([decl |-> XmlDecl, body |-> tostring(e)])

\* clean_xml(file_path) as a function of the file's text
clean_xml(text) ==
    IF ~WellFormed(text) THEN None
    ELSE
        LET root == Parse(text) IN
        IF ~has_blood(root) THEN None
        ELSE
            LET st0 == [elem |-> root, modified |-> FALSE]
                st1 == filter_props(st0, FindDesc(root, "props"))
                st2 == default_frequency(st1)
                st3 == remove_empty_elements(st2, 1)
            IN  IF st3.modified THEN xml_output(st3.elem) ELSE None

\* ------------------------------------------------------------------ Spec: one document

Init ==
    /\ file = <<>>
    /\ pass = 1
    /\ pc = "input"
    /\ elem = <<>>
    /\ blood = FALSE
    /\ modified = FALSE
    /\ result = None
    /\ written = None
    /\ files = <<>>
    /\ idx = 1
    /\ outdir = <<>>
    /\ wpc = "off"

walkvars == <<files, idx, outdir, wpc>>
runvars == <<elem, blood, modified, result, written>>

\* The input file gets its document element.
StartDocument ==
    /\ pc = "input" /\ pass = 1
    /\ file = <<>>
    /\ file' = <<Token(Label(RootTag, NoAttrib), 0)>>
    /\ UNCHANGED <<pass, pc, runvars, walkvars>>

\* The input file gets one more element, nested in an element that is still open.
AppendElement(d, lab) ==
    /\ pc = "input" /\ pass = 1
    /\ WellFormed(file)
    /\ Len(file) < MaxNodes
    /\ d <= file[Len(file)].depth + 1
    /\ LET text == Append(file, Token(lab, d))
       IN  /\ lab \in Allowed(file[ParentOf(text, Len(text))].tag)
           /\ file' = text
    /\ UNCHANGED <<pass, pc, runvars, walkvars>>

\* The input file gets text after its document element: it is not well-formed XML.
AppendJunk ==
    /\ pc = "input" /\ pass = 1
    /\ WellFormed(file)
    /\ Len(file) < MaxNodes
    /\ file' = Append(file, Token(Label(RootTag, NoAttrib), 0))
    /\ UNCHANGED <<pass, pc, runvars, walkvars>>

\* clean_xml: ET.parse, getroot, modified = False; ParseError -> return None
Load ==
    /\ pc = "input"
    /\ IF WellFormed(file)
       THEN /\ elem' = Parse(file)
            /\ pc' = "scan"
       ELSE /\ elem' = <<>>
            /\ pc' = "returned"
    /\ modified' = FALSE
    /\ blood' = FALSE
    /\ result' = None
    /\ UNCHANGED <<file, pass, written, walkvars>>

\* clean_xml: the two scans and the early return
Scan ==
    /\ pc = "scan"
    /\ blood' = has_blood(elem)
    /\ pc' = IF has_blood(elem) THEN "filter" ELSE "returned"
    /\ UNCHANGED <<file, pass, elem, modified, result, written, walkvars>>

\* clean_xml: the loop over root.findall(".//props")
Filter ==
    /\ pc = "filter"
    /\ LET st == filter_props([elem |-> elem, modified |-> modified],
                              FindDesc(elem, "props"))
       IN  elem' = st.elem /\ modified' = st.modified
    /\ pc' = "normalize"
    /\ UNCHANGED <<file, pass, blood, result, written, walkvars>>

\* clean_xml: the loop over root.findall(".//variant")
Normalize ==
    /\ pc = "normalize"
    /\ LET st == default_frequency([elem |-> elem, modified |-> modified])
       IN  elem' = st.elem /\ modified' = st.modified
    /\ pc' = "prune"
    /\ UNCHANGED <<file, pass, blood, result, written, walkvars>>

\* clean_xml: remove_empty_elements(root)
Prune ==
    /\ pc = "prune"
    /\ LET st == remove_empty_elements([elem |-> elem, modified |-> modified], 1)
       IN  elem' = st.elem /\ modified' = st.modified
    /\ pc' = "return"
    /\ UNCHANGED <<file, pass, blood, result, written, walkvars>>

\* clean_xml: if modified: return the text; return None
Return ==
    /\ pc = "return"
    /\ result' = IF modified THEN xml_output(elem) ELSE None
    /\ pc' = "returned"
    /\ UNCHANGED <<file, pass, elem, blood, modified, written, walkvars>>

\* clean_and_copy_xml_files: if cleaned_xml: write it below the output folder
Write ==
    /\ pc = "returned"
    /\ written' = IF result /= None THEN result ELSE written
    /\ pc' = "done"
    /\ UNCHANGED <<file, pass, elem, blood, modified, result, walkvars>>

\* The tool is run again with the written output as its input.
Reread ==
    /\ pc = "done" /\ pass = 1
    /\ written /= None
    /\ file' = written[1].body
    /\ pass' = 2
    /\ pc' = "input"
    /\ UNCHANGED <<runvars, walkvars>>

Next ==
    \/ StartDocument
    \/ \E d \in 1..MaxNodes : \E lab \in VariantLabels \cup PropLabels \cup ContainerLabels
            \cup { Label(t, NoAttrib) : t \in {"group", "animation", "texture"} } :
          AppendElement(d, lab)
    \/ AppendJunk
    \/ Load
    \/ Scan
    \/ Filter
    \/ Normalize
    \/ Prune
    \/ Return
    \/ Write
    \/ Reread

Spec == Init /\ [][Next]_vars

\* ------------------------------------------------------------------ SpecWalk: the directory walk

BloodActor == Some(<<"G","_","B","l","o","o","d">>)
RockActor == Some(<<"r","o","c","k">>)
Tok(t, a, d) == [tag |-> t, attrib |-> a, depth |-> d]

\* <actor><group><variant><props><prop actor="G_Blood"/></props></variant></group></actor>
ChainText ==
    << Tok("actor", NoAttrib, 0), Tok("group", NoAttrib, 1), Tok("variant", NoAttrib, 2),
       Tok("props", NoAttrib, 3), Tok("prop", [NoAttrib EXCEPT !.actor = BloodActor], 4) >>

\* a variant with a file, no frequency and one blood prop
FileVariantText ==
    << Tok("actor", NoAttrib, 0), Tok("group", NoAttrib, 1),
       Tok("variant", [NoAttrib EXCEPT !.file = Some("f")], 2),
       Tok("props", NoAttrib, 3), Tok("prop", [NoAttrib EXCEPT !.actor = BloodActor], 4) >>

\* a blood prop beside an allowed prop, in a variant that has its frequency
SiblingText ==
    << Tok("actor", NoAttrib, 0), Tok("group", NoAttrib, 1),
       Tok("variant", [NoAttrib EXCEPT !.frequency = Some("100")], 2),
       Tok("props", NoAttrib, 3), Tok("prop", [NoAttrib EXCEPT !.actor = BloodActor], 4),
       Tok("prop", [NoAttrib EXCEPT !.actor = RockActor], 4) >>

\* no blood: a variant without frequency, an empty group
CleanText ==
    << Tok("actor", NoAttrib, 0), Tok("group", NoAttrib, 1), Tok("variant", NoAttrib, 2),
       Tok("props", NoAttrib, 3), Tok("prop", [NoAttrib EXCEPT !.actor = RockActor], 4),
       Tok("group", NoAttrib, 1) >>

\* text after the document element
JunkText == << Tok("actor", NoAttrib, 0), Tok("group", NoAttrib, 1), Tok("actor", NoAttrib, 0) >>

\* The files of the input folder: name ends in ".xml" or not, and the content.
SampleFiles ==
    { [xml |-> TRUE, text |-> t] :
        t \in {ChainText, FileVariantText, SiblingText, CleanText, JunkText, <<>>} }
    \cup { [xml |-> FALSE, text |-> ChainText] }

InitWalk ==
    /\ \E n \in 1..MaxFiles : files \in [1..n -> SampleFiles]
    /\ idx = 1
    /\ outdir = [i \in 1..Len(files) |-> None]
    /\ wpc = "walk"
    /\ file = <<>>
    /\ pass = 1
    /\ pc = "off"
    /\ elem = <<>>
    /\ blood = FALSE
    /\ modified = FALSE
    /\ result = None
    /\ written = None

\* the loop has a next file, and it is not an .xml file
SkipGuard == wpc = "walk" /\ idx <= Len(files) /\ ~files[idx].xml

\* the loop has a next file, and it is an .xml file
FileGuard == wpc = "walk" /\ idx <= Len(files) /\ files[idx].xml

\* the loop has no next file
DoneGuard == wpc = "walk" /\ idx > Len(files)

\* for file in files: if not file.endswith(".xml"): continue
WalkSkip ==
    /\ SkipGuard
    /\ idx' = idx + 1
    /\ UNCHANGED <<files, outdir, wpc, file, pass, pc, runvars>>

\* Faulty loop body: a ParseError is not caught and ends the walk.
WalkFile_abort ==
    /\ FileGuard
    /\ IF WellFormed(files[idx].text)
       THEN /\ LET cleaned_xml == clean_xml(files[idx].text)
               IN  outdir' = IF cleaned_xml /= None
                             THEN [outdir EXCEPT ![idx] = cleaned_xml]
                             ELSE outdir
            /\ idx' = idx + 1
            /\ wpc' = wpc
       ELSE /\ wpc' = "crashed"
            /\ UNCHANGED <<idx, outdir>>
    /\ UNCHANGED <<files, file, pass, pc, runvars>>

\* for file in files: cleaned_xml = clean_xml(file_path); if cleaned_xml: write it
WalkFile ==
    /\ FileGuard
    /\ LET cleaned_xml == clean_xml(files[idx].text)
       IN  outdir' = IF cleaned_xml /= None
                     THEN [outdir EXCEPT ![idx] = cleaned_xml]
                     ELSE outdir
    /\ idx' = idx + 1
    /\ UNCHANGED <<files, wpc, file, pass, pc, runvars>>

\* the walk is exhausted: clean_and_copy_xml_files returns
WalkDone ==
    /\ DoneGuard
    /\ wpc' = "done"
    /\ UNCHANGED <<files, idx, outdir, file, pass, pc, runvars>>

NextWalk == WalkSkip \/ WalkFile \/ WalkDone

SpecWalk == InitWalk /\ [][NextWalk]_vars

\* ------------------------------------------------------------------ properties

\* the first run over the input document has finished (written or not)
Finished == pass = 1 /\ pc = "done"

\* the first run has finished and wrote an output file
Produced == Finished /\ written /= None

\* the elements still attached below the root
Alive(e) == Range(Iter(e, 1))

\* start tag k of a text has no element nested in it
Childless(text, k) == k = Len(text) \/ text[k + 1].depth <= text[k].depth

\* a prop start tag whose actor contains the marker
DisallowedProp(text, k) == text[k].tag = "prop" /\ IsBloodActor(text[k].attrib)

\* C1: whenever the scan of a parsed document finds a disallowed prop, the
\* document is written, whatever the later stages changed.
WriteOnDetection == (Finished /\ blood) => written /= None

\* C2: a document without any disallowed prop yields no result and no file,
\* whatever else is wrong with it.
GatingInvariant ==
    (pass = 1 /\ pc \in {"returned", "done"}
        /\ \A k \in 1..Len(file) : ~DisallowedProp(file, k))
    => (result = None /\ written = None)

\* C2 witness: a blood-free document with a variant lacking its frequency and
\* an empty group has been through the walker's loop body.
GatingWitness ==
    /\ Finished /\ WellFormed(file) /\ written = None
    /\ \A k \in 1..Len(file) : ~DisallowedProp(file, k)
    /\ \E k \in 1..Len(file) : file[k].tag = "variant" /\ file[k].attrib.frequency = None
    /\ \E k \in 1..Len(file) : file[k].tag = "group" /\ Childless(file, k)

\* C3: an output file holds no disallowed prop, under any parent.
CompleteRemoval ==
    written /= None =>
        \A k \in 1..Len(written[1].body) : ~DisallowedProp(written[1].body, k)

\* C4: a disallowed prop directly under a variant is detected by the scan.
DetectsPropUnderVariant ==
    (pass = 1 /\ pc \in {"returned", "done"} /\ WellFormed(file)
        /\ \E k \in 2..Len(file) :
              DisallowedProp(file, k) /\ file[ParentOf(file, k)].tag = "variant")
    => blood

EmptyVariant(o, v, freqs) ==
    /\ o[v].tag = "variant"
    /\ o[v].children = <<>>
    /\ o[v].attrib.file = None
    /\ \E q \in freqs : o[v].attrib.frequency = Some(q)

\* the chain root > group > variant (no file) > props > one disallowed prop
IsChain(text) ==
    /\ Len(text) = 5
    /\ \A k \in 1..5 : text[k].depth = k - 1
    /\ text[2].tag = "group" /\ text[3].tag = "variant" /\ text[4].tag = "props"
    /\ text[3].attrib.file = None
    /\ DisallowedProp(text, 5)

Idempotence ==
    pass = 2 =>
        /\ pc \in {"input", "scan", "returned", "done"}
        /\ pc \in {"returned", "done"} => (~blood /\ result = None)

\* C8 witness: the run over an output from which props were filtered has finished.
IdempotenceWitness ==
    /\ pass = 2 /\ pc = "done"
    /\ written /= None
    /\ \E k \in 1..Len(written[1].body) : written[1].body[k].tag = "prop"

\* what a file of the walk yields on its own
OutputAlone(f) == IF f.xml THEN clean_xml(f.text) ELSE None

\* every file the walk has passed has exactly the output it yields on its own
\* (none when it fails to parse), no later file has one yet, and the walk is
\* either over, after the last file, or able to take its next step
SettledPrefix ==
    /\ \A i \in 1..Len(files) :
          /\ i < idx => outdir[i] = OutputAlone(files[i])
          /\ i >= idx => outdir[i] = None
          /\ (i < idx /\ files[i].xml /\ ~WellFormed(files[i].text)) => outdir[i] = None
    /\ \/ wpc = "done" /\ idx = Len(files) + 1
       \/ SkipGuard \/ FileGuard \/ DoneGuard

\* C9: a file that fails to parse gets no output and changes no other file's
\* output; the walk is never stuck before its end, and every step of it
\* passes one file or ends the walk after the last one.
ParseFailureIsolation ==
    /\ []SettledPrefix
    /\ [][idx' = idx + 1 \/ (idx' = idx /\ idx > Len(files) /\ wpc' = "done")]_vars

\* C9 witness: a finished walk that wrote a file after one that failed to
\* parse and before another one.
IsolationWitness ==
    /\ wpc = "done"
    /\ \E i, j, k \in 1..Len(files) :
          /\ i < j /\ j < k
          /\ outdir[i] /= None
          /\ files[j].xml /\ ~WellFormed(files[j].text)
          /\ outdir[k] /= None

\* C10: a variant of the input is missing from the output only if it ended
\* with no children and no file attribute, at frequency "0" or, as the only
\* child of a removed group, at frequency "100".
RemovalSoundness ==
    Produced =>
        \A v \in 1..Len(file) :
            (file[v].tag = "variant" /\ v \notin Alive(elem)) =>
                /\ elem[v].children = <<>>
                /\ elem[v].attrib.file = None
                /\ \/ elem[v].attrib.frequency = Some("0")
                   \/ /\ elem[v].attrib.frequency = Some("100")
                      /\ \E g \in 1..Len(file) :
                            /\ elem[g].tag = "group"
                            /\ g \notin Alive(elem)
                            /\ elem[g].children = <<v>>

\* C10, with a blank file attribute read as the code reads it (as no file):
\* the only way the code departs from RemovalSoundness.
RemovalSoundnessBlankFile ==
    Produced =>
        \A v \in 1..Len(file) :
            (file[v].tag = "variant" /\ v \notin Alive(elem)) =>
                /\ elem[v].children = <<>>
                /\ elem[v].attrib.file \in {None, Some("")}
                /\ \/ elem[v].attrib.frequency = Some("0")
                   \/ /\ elem[v].attrib.frequency = Some("100")
                      /\ \E g \in 1..Len(file) :
                            /\ elem[g].tag = "group"
                            /\ g \notin Alive(elem)
                            /\ elem[g].children = <<v>>

====
